---- MODULE Spec2Model ----
(***************************************************************************)
(* Model of the llm-server of OpenCopilot: the conversation step           *)
(* (routes/workflow/utils/process_conversation_step.py), the JSON          *)
(* truncator (routes/lossy_compressors/truncate_json.py) and the three     *)
(* retrieval queries (routes/workflow/utils/api_retrievers.py).            *)
(*                                                                         *)
(* Text is modelled as a sequence of tokens (strings): an f-string is the  *)
(* concatenation of its literal parts and of the serialisations it         *)
(* interpolates, and a parser reads the tokens back.  The code fences of   *)
(* the prompt literals are left out of the literals' text.                 *)
(***************************************************************************)
EXTENDS Integers, Sequences, FiniteSets, TLC

VARIABLES
    \* process_conversation_step: the arguments of the current turn
    session_id, app, user_requirement, context, api_summaries,
    prev_conversations, flows, bot_id,
    \* process_conversation_step: locals, position and outcome
    pc, prompt_templates, messages, content, parse_outcome, returned, raised,
    \* the collaborators as seen from the turn
    prompts_registry, load_prompts_calls, chat_calls, chat_messages,
    \* truncate_json: the arguments, the position and the results of two passes
    json_obj, max_elements, tj_pc, truncated, truncated_again,
    \* api_retrievers: the three indices, the environment, and the last query
    vector_store, SCORE_THRESHOLD_KB, retr_pc, retr_fn, retr_bot_id,
    search_kwargs, search_hits, retr_result,
    \* gen_body_from_schema / gen_params_from_schema: the two coroutines of one
    \* API call, the app of the call, and the coroutine the event loop is running
    synth, synth_app, loop_running,
    \* send_chat: the requests in progress and the chat history table
    chat_reqs, chat_history,
    \* validator and SwaggerParser: the document loaded, the parser, the position
    \* of the handler, the methods called, and the results
    swagger_content, parser, sw_pc, sw_calls, sw_endpoints, sw_validations, sw_response

argVars == <<session_id, app, user_requirement, context, api_summaries,
             prev_conversations, flows, bot_id>>
stepVars == <<pc, prompt_templates, messages, content, parse_outcome, returned, raised>>
collabVars == <<prompts_registry, load_prompts_calls, chat_calls, chat_messages>>
convVars == <<argVars, stepVars, collabVars>>
truncVars == <<json_obj, max_elements, tj_pc, truncated, truncated_again>>
retrVars == <<vector_store, SCORE_THRESHOLD_KB, retr_pc, retr_fn, retr_bot_id,
              search_kwargs, search_hits, retr_result>>
synthVars == <<synth, synth_app, loop_running>>
sendVars == <<chat_reqs, chat_history>>
swaggerVars == <<swagger_content, parser, sw_pc, sw_calls, sw_endpoints,
                 sw_validations, sw_response>>
vars == <<convVars, truncVars, retrVars, synthVars, sendVars, swaggerVars>>

----------------------------------------------------------------------------
(* Bounds and value universes *)

\* longest prior-turn history given to a turn
MaxHist == 2

\* Python's None, for the Optional[str] arguments and fields
None == "<None>"

BotIds == {"bot1", "bot2"}
SessionIds == {None, "", "sess1"}
Apps == {None, "", "shop"}
Contexts == {None, "", "kb passage"}
UserTexts == {"What is the weather"}
ApiSummaryLists == {<<>>, <<"getWeather">>, <<"getWeather", "listCities">>}
FlowLists == {<<>>, <<"flow-42">>}

\* a message of the langchain schema: its class and its content
SystemMessage(c) == [type |-> "system", content |-> c]
HumanMessage(c) == [type |-> "human", content |-> c]
AIMessage(c) == [type |-> "ai", content |-> c]

HistoryMessages == {HumanMessage(<<"hi">>), AIMessage(<<"hello, how can I help?">>)}

RECURSIVE SeqsUpTo(_, _)
SeqsUpTo(S, n) ==
    IF n = 0 THEN {<<>>}
    ELSE LET shorter == SeqsUpTo(S, n - 1)
         IN  shorter \cup {Append(s, x) : s \in {t \in shorter : Len(t) = n - 1}, x \in S}

Histories == SeqsUpTo(HistoryMessages, MaxHist)

\* Python truthiness of an Optional[str] and of a list
TruthyStr(s) == s # None /\ s # ""
TruthyList(l) == Len(l) > 0

----------------------------------------------------------------------------
(* json.dumps: the text of a value, as tokens *)

RECURSIVE Join(_)
Join(l) ==
    IF l = <<>> THEN <<>>
    ELSE IF Len(l) = 1 THEN <<"\"", l[1], "\"">>
    ELSE <<"\"", l[1], "\"", ",">> \o Join(Tail(l))

dumps_str(s) == IF s = None THEN <<"null">> ELSE <<"\"", s, "\"">>
dumps_list(l) == <<"[">> \o Join(l) \o <<"]">>

----------------------------------------------------------------------------
(* process_conversation_step: the prompt *)

DefaultSystemMessage ==
    "You are a helpful ai assistant. User will give you two things, a list of api's and some useful information, called context."

ContextIntro == "Here is some relevant context I found that might be helpful - "
SwaggerIntro == "Also, here is the excerpt from API swagger for the APIs I think might be helpful in answering the question "
FlowsIntro == "I also found some api flows, that maybe able to answer the following question "
FlowsPrecedence == "If one of the flows can accurately answer the question, then set id in the response should be the ids defined in the flows. Flows should take precedence over the api_summaries"
ContextOnlyIntro == "I found some relevant context that might be helpful. Here is the context: "
SummariesOnlyIntro == "I found API summaries that might be helpful in answering the question. Here are the api summaries: "
FenceEnd == ". "

JsonFormatInstruction ==
    "Based on the information provided to you I want you to answer the questions that follow. Your should respond with a json that looks like the following - { ids: [list, of, operationIds, for apis to be called], bot_message: your response based on the instructions provided at the beginning }"
ClarifyInstruction == "If you are unsure / confused, ask claryfying questions"

\* lines 35-41: the system instruction
system_message_classifier(a, templates) ==
    IF TruthyStr(a) /\ templates.system_message # None
    THEN SystemMessage(<<templates.system_message>>)
    ELSE SystemMessage(<<DefaultSystemMessage>>)

EvidenceMessages_FlowsUntested(ctx, summaries, fl) ==
    IF TruthyStr(ctx) /\ TruthyList(summaries)
    THEN <<HumanMessage(<<ContextIntro>> \o dumps_str(ctx) \o <<SwaggerIntro>>
                        \o dumps_list(summaries) \o <<FlowsIntro>>
                        \o dumps_list(fl) \o <<FlowsPrecedence>>)>>
    ELSE IF TruthyStr(ctx)
    THEN <<HumanMessage(<<ContextOnlyIntro>> \o dumps_str(ctx) \o <<FenceEnd>>)>>
    ELSE IF Len(summaries) > 0
    THEN <<HumanMessage(<<SummariesOnlyIntro>> \o dumps_list(summaries) \o <<FenceEnd>>)>>
    ELSE <<>>

EvidenceMessages_FlowsWithSummaries(ctx, summaries, fl) ==
    IF TruthyList(summaries) /\ TruthyList(fl)
    THEN <<HumanMessage(<<ContextIntro>> \o dumps_str(ctx) \o <<SwaggerIntro>>
                        \o dumps_list(summaries) \o <<FlowsIntro>>
                        \o dumps_list(fl) \o <<FlowsPrecedence>>)>>
    ELSE IF TruthyStr(ctx) /\ Len(summaries) > 0
    THEN <<HumanMessage(<<ContextIntro>> \o dumps_str(ctx) \o <<SwaggerIntro>>
                        \o dumps_list(summaries) \o <<FenceEnd>>)>>
    ELSE IF TruthyStr(ctx)
    THEN <<HumanMessage(<<ContextOnlyIntro>> \o dumps_str(ctx) \o <<FenceEnd>>)>>
    ELSE IF Len(summaries) > 0
    THEN <<HumanMessage(<<SummariesOnlyIntro>> \o dumps_list(summaries) \o <<FenceEnd>>)>>
    ELSE <<>>

\* lines 52-76: the evidence messages appended for the given evidence
EvidenceMessages(ctx, summaries, fl) ==
    IF TruthyStr(ctx) /\ TruthyList(summaries) /\ TruthyList(fl)
    THEN <<HumanMessage(<<ContextIntro>> \o dumps_str(ctx) \o <<SwaggerIntro>>
                        \o dumps_list(summaries) \o <<FlowsIntro>>
                        \o dumps_list(fl) \o <<FlowsPrecedence>>)>>
    ELSE IF TruthyStr(ctx) /\ Len(summaries) > 0
    THEN <<HumanMessage(<<ContextIntro>> \o dumps_str(ctx) \o <<SwaggerIntro>>
                        \o dumps_list(summaries) \o <<FenceEnd>>)>>
    ELSE IF TruthyStr(ctx)
    THEN <<HumanMessage(<<ContextOnlyIntro>> \o dumps_str(ctx) \o <<FenceEnd>>)>>
    ELSE IF Len(summaries) > 0
    THEN <<HumanMessage(<<SummariesOnlyIntro>> \o dumps_list(summaries) \o <<FenceEnd>>)>>
    ELSE <<>>

BuildMessages_HistoryLast(a, templates, prev, ctx, summaries, fl, text) ==
    <<system_message_classifier(a, templates)>>
    \o EvidenceMessages(ctx, summaries, fl)
    \o <<HumanMessage(<<JsonFormatInstruction>>),
         HumanMessage(<<ClarifyInstruction>>),
         HumanMessage(<<text>>)>>
    \o (IF TruthyList(prev) THEN prev ELSE <<>>)

\* lines 48-91: the message sequence handed to the model
BuildMessages(a, templates, prev, ctx, summaries, fl, text) ==
    <<system_message_classifier(a, templates)>>
    \o (IF TruthyList(prev) THEN prev ELSE <<>>)
    \o EvidenceMessages(ctx, summaries, fl)
    \o <<HumanMessage(<<JsonFormatInstruction>>),
         HumanMessage(<<ClarifyInstruction>>),
         HumanMessage(<<text>>)>>

----------------------------------------------------------------------------
(* The collaborators of process_conversation_step *)

\* load_prompts(bot_id): the prompt overrides registered for the bot
load_prompts(registry, b) == [system_message |-> registry[b]]

CustomPrompts == [BotIds -> {None, "You are the shop assistant."}]

\* What the completion model may write: a reply structure as JSON text, alone
\* or inside prose, or text that holds no such structure.
ReplyStructs ==
    { [ids |-> <<"flow-42">>, bot_message |-> "Sure, doing that."],
      [ids |-> <<"getWeather", "listCities">>, bot_message |-> "Looking it up."],
      [ids |-> <<>>, bot_message |-> "Which city do you mean?"] }

JsonText(s) ==
    <<"{", "\"", "ids", "\"", ":">> \o dumps_list(s.ids)
    \o <<",", "\"", "bot_message", "\"", ":">> \o dumps_str(s.bot_message) \o <<"}">>

Prose == {<<>>, <<"Here", "is", "my", "answer:">>}

StructuredContents == {pre \o JsonText(s) \o post : s \in ReplyStructs, pre \in Prose, post \in Prose}

UnstructuredContents ==
    { <<"It", "is", "sunny.">>,
      <<>>,
      <<"{", "\"", "answer", "\"", ":", "\"", "sunny", "\"", "}">>,
      <<"{", "\"", "ids", "\"", ":", "\"", "getWeather", "\"", ",",
        "\"", "bot_message", "\"", ":", "\"", "ok", "\"", "}">>,
      <<"{", "\"", "ids", "\"", ":", "[", "\"", "getWeather", "\"">> }

Contents == StructuredContents \cup UnstructuredContents

\* failures of the parser other than the shape mismatch, by their str()
OtherParseErrors == {"TypeError: expected string or bytes-like object"}

----------------------------------------------------------------------------
(* parse_bot_message: the first "{" up to the last "}" of the text, read as a
   JSON object and validated as BotMessage(bot_message: str, ids: List[str]) *)

ParseFail == [ok |-> FALSE, kind |-> "none", val |-> <<>>, rest |-> <<>>]

RECURSIVE ParseItems(_, _, _)
ParseItems(t, acc, first) ==
    IF t = <<>> THEN ParseFail
    ELSE IF t[1] = "]"
    THEN [ok |-> TRUE, kind |-> "list", val |-> acc, rest |-> Tail(t)]
    ELSE LET u == IF first THEN t ELSE IF t[1] = "," THEN Tail(t) ELSE <<>>
         IN  IF Len(u) >= 3 /\ u[1] = "\"" /\ u[3] = "\""
             THEN ParseItems(SubSeq(u, 4, Len(u)), Append(acc, u[2]), FALSE)
             ELSE ParseFail

ParseValue(t) ==
    IF t = <<>> THEN ParseFail
    ELSE IF Len(t) >= 3 /\ t[1] = "\"" /\ t[3] = "\""
    THEN [ok |-> TRUE, kind |-> "str", val |-> <<t[2]>>, rest |-> SubSeq(t, 4, Len(t))]
    ELSE IF t[1] = "[" THEN ParseItems(Tail(t), <<>>, TRUE)
    ELSE ParseFail

NoMembers == [ok |-> TRUE, keys |-> <<>>, kinds |-> <<>>, vals |-> <<>>]

\* the members of a JSON object, in the order written
RECURSIVE ParseMembers(_, _, _)
ParseMembers(t, acc, first) ==
    IF t = <<>> THEN acc
    ELSE LET u == IF first THEN t ELSE IF t[1] = "," THEN Tail(t) ELSE <<>>
         IN  IF Len(u) >= 4 /\ u[1] = "\"" /\ u[3] = "\"" /\ u[4] = ":"
             THEN LET v == ParseValue(SubSeq(u, 5, Len(u)))
                  IN  IF v.ok
                      THEN ParseMembers(v.rest,
                                        [ok |-> TRUE,
                                         keys |-> Append(acc.keys, u[2]),
                                         kinds |-> Append(acc.kinds, v.kind),
                                         vals |-> Append(acc.vals, v.val)],
                                        FALSE)
                      ELSE [acc EXCEPT !.ok = FALSE]
             ELSE [acc EXCEPT !.ok = FALSE]

FirstIndex(t, tok) ==
    IF \E i \in 1..Len(t) : t[i] = tok
    THEN CHOOSE i \in 1..Len(t) : t[i] = tok /\ \A j \in 1..(i - 1) : t[j] # tok
    ELSE 0

LastIndex(t, tok) ==
    IF \E i \in 1..Len(t) : t[i] = tok
    THEN CHOOSE i \in 1..Len(t) : t[i] = tok /\ \A j \in (i + 1)..Len(t) : t[j] # tok
    ELSE 0

\* the value of the last member named k with the kind wanted, or absent
Member(obj, k, kind) ==
    LET at == {i \in 1..Len(obj.keys) : obj.keys[i] = k}
    IN  IF at = {} THEN [present |-> FALSE, val |-> <<>>]
        ELSE LET i == CHOOSE i \in at : \A j \in at : j <= i
             IN  [present |-> obj.kinds[i] = kind, val |-> obj.vals[i]]

ParserException == [exc |-> "OutputParserException", ids |-> <<>>, bot_message |-> <<>>]

\* before the parser has been called
NotParsed == [exc |-> "<not called>", ids |-> <<>>, bot_message |-> <<>>]

parse_bot_message(text) ==
    LET lo == FirstIndex(text, "{")
        hi == LastIndex(text, "}")
    IN  IF lo = 0 \/ hi <= lo THEN ParserException
        ELSE LET obj == ParseMembers(SubSeq(text, lo + 1, hi - 1), NoMembers, TRUE)
                 ids == Member(obj, "ids", "list")
                 msg == Member(obj, "bot_message", "str")
             IN  IF obj.ok /\ ids.present /\ msg.present
                 THEN [exc |-> None, ids |-> ids.val, bot_message |-> msg.val]
                 ELSE ParserException

\* what the call of parse_bot_message may do on a text
ParseOutcomes(text) ==
    {parse_bot_message(text)}
    \cup {[exc |-> e, ids |-> <<>>, bot_message |-> <<>>] : e \in OtherParseErrors}

----------------------------------------------------------------------------
(* process_conversation_step, lines 95-111: the value returned for an outcome
   of the parse.  A bot_message is text: a parsed string is the one token of
   its characters, the raw reply is all its tokens. *)

BotMessage(ids, bot_message) == [ids |-> ids, bot_message |-> bot_message]

NoBotMessage == BotMessage(<<>>, <<>>)

parse_step_result_StrOfError(text, outcome) ==
    IF outcome.exc = None
    THEN BotMessage(outcome.ids, outcome.bot_message)
    ELSE BotMessage(<<>>, <<outcome.exc>>)

parse_step_result_IdsDropped(text, outcome) ==
    IF outcome.exc = None
    THEN BotMessage(<<>>, outcome.bot_message)
    ELSE IF outcome.exc = "OutputParserException"
    THEN BotMessage(<<>>, text)
    ELSE BotMessage(<<>>, <<outcome.exc>>)

parse_step_result(text, outcome) ==
    IF outcome.exc = None
    THEN BotMessage(outcome.ids, outcome.bot_message)
    ELSE IF outcome.exc = "OutputParserException"
    THEN BotMessage(<<>>, text)
    ELSE BotMessage(<<>>, <<outcome.exc>>)

----------------------------------------------------------------------------
(* The turns of process_conversation_step *)

NoTemplates == [system_message |-> None]

ConvIdle ==
    /\ session_id = None /\ app = None /\ user_requirement = ""
    /\ context = None /\ api_summaries = <<>> /\ prev_conversations = <<>>
    /\ flows = <<>> /\ bot_id = "bot1"
    /\ pc = "idle" /\ prompt_templates = NoTemplates /\ messages = <<>>
    /\ content = <<>> /\ parse_outcome = NotParsed
    /\ returned = NoBotMessage /\ raised = None
    /\ load_prompts_calls = 0 /\ chat_calls = 0 /\ chat_messages = <<>>

ConvInit == ConvIdle /\ prompts_registry \in CustomPrompts

ConvParked == ConvIdle /\ prompts_registry = [b \in BotIds |-> None]

\* lines 32-33: the guard on the session id
SessionIdMissing_NoneOnly(s) == s = None

SessionIdMissing(s) == ~TruthyStr(s)

\* lines 22-33: a caller starts a turn; an empty session id fails at once
Call ==
    /\ pc = "idle"
    /\ session_id' \in SessionIds
    /\ app' \in Apps
    /\ user_requirement' \in UserTexts
    /\ context' \in Contexts
    /\ api_summaries' \in ApiSummaryLists
    /\ prev_conversations' \in Histories
    /\ flows' \in FlowLists
    /\ bot_id' \in BotIds
    /\ prompt_templates' = NoTemplates /\ messages' = <<>> /\ content' = <<>>
    /\ parse_outcome' = NotParsed /\ returned' = NoBotMessage
    /\ load_prompts_calls' = 0 /\ chat_calls' = 0 /\ chat_messages' = <<>>
    /\ IF SessionIdMissing(session_id')
       THEN pc' = "raised" /\ raised' = "ValueError"
       ELSE pc' = "load_prompts" /\ raised' = None
    /\ UNCHANGED <<prompts_registry, truncVars, retrVars, synthVars, sendVars, swaggerVars>>

\* lines 34-91: the prompt overrides are loaded and the messages assembled
Assemble ==
    /\ pc = "load_prompts"
    /\ load_prompts_calls' = load_prompts_calls + 1
    /\ prompt_templates' = load_prompts(prompts_registry, bot_id)
    /\ messages' = BuildMessages(app, prompt_templates', prev_conversations, context,
                                 api_summaries, flows, user_requirement)
    /\ pc' = "chat"
    /\ UNCHANGED <<argVars, content, parse_outcome, returned, raised,
                   prompts_registry, chat_calls, chat_messages, truncVars, retrVars, synthVars, sendVars, swaggerVars>>

\* line 93: the completion call returns the model's text
ChatReturns ==
    /\ pc = "chat"
    /\ chat_calls' = chat_calls + 1
    /\ chat_messages' = messages
    /\ content' \in Contents
    /\ pc' = "parse"
    /\ UNCHANGED <<argVars, prompt_templates, messages, parse_outcome, returned,
                   raised, prompts_registry, load_prompts_calls, truncVars, retrVars, synthVars, sendVars, swaggerVars>>

\* (a retry of the failed completion call, which the code does not have)
ChatRaises_Retry ==
    /\ pc = "chat"
    /\ chat_calls < 2
    /\ chat_calls' = chat_calls + 1
    /\ chat_messages' = messages
    /\ IF chat_calls = 0
       THEN pc' = "chat" /\ raised' = raised
       ELSE pc' = "raised" /\ raised' = "CompletionError"
    /\ UNCHANGED <<argVars, prompt_templates, messages, content, parse_outcome,
                   returned, prompts_registry, load_prompts_calls, truncVars, retrVars, synthVars, sendVars, swaggerVars>>

\* line 93: the completion call fails; nothing catches it
ChatRaises ==
    /\ pc = "chat"
    /\ chat_calls' = chat_calls + 1
    /\ chat_messages' = messages
    /\ raised' = "CompletionError"
    /\ pc' = "raised"
    /\ UNCHANGED <<argVars, prompt_templates, messages, content, parse_outcome,
                   returned, prompts_registry, load_prompts_calls, truncVars, retrVars, synthVars, sendVars, swaggerVars>>

\* lines 95-111: the text is parsed and the turn returns
Parse ==
    /\ pc = "parse"
    /\ \E outcome \in ParseOutcomes(content) :
          /\ parse_outcome' = outcome
          /\ returned' = parse_step_result(content, outcome)
    /\ pc' = "returned"
    /\ UNCHANGED <<argVars, prompt_templates, messages, content, raised, collabVars,
                   truncVars, retrVars, synthVars, sendVars, swaggerVars>>

----------------------------------------------------------------------------
(* truncate_json (routes/lossy_compressors/truncate_json.py)

   A JSON value is a record [t, s, v]: a scalar [t |-> "scalar", s |-> its
   text, v |-> <<>>], a list [t |-> "list", v |-> its elements], a mapping
   [t |-> "dict", v |-> its members in key order], a member being
   [t |-> "member", s |-> the key, v |-> <<the value>>]. *)

\* longest list of the structures tried
MaxLen == 2
\* largest max_elements tried
MaxElements == 2

Scalar(x) == [t |-> "scalar", s |-> x, v |-> <<>>]
List(elems) == [t |-> "list", s |-> "", v |-> elems]
Dict(members) == [t |-> "dict", s |-> "", v |-> members]
MemberOf(k, val) == [t |-> "member", s |-> k, v |-> <<val>>]

Scalars == {Scalar("1"), Scalar("2")}
Keys == <<"a", "b">>

ListsOf(S) == {List(l) : l \in SeqsUpTo(S, MaxLen)}

\* the mappings with keys "a", "b" or both, in that order, and values of S
DictsOf(S) ==
    {Dict(<<>>)}
    \cup {Dict(<<MemberOf(Keys[i], x)>>) : i \in 1..Len(Keys), x \in S}
    \cup {Dict(<<MemberOf(Keys[1], x), MemberOf(Keys[2], y)>>) : x \in S, y \in S}

\* structures of nesting depth 1, 2, and 3 (the deepest with a single child)
Flat == Scalars \cup ListsOf(Scalars) \cup DictsOf(Scalars)
Nested == Flat \cup ListsOf(Flat) \cup {Dict(<<MemberOf(Keys[1], x)>>) : x \in Flat}
JsonValues ==
    Nested \cup {List(<<x>>) : x \in Nested} \cup {Dict(<<MemberOf(Keys[1], x)>>) : x \in Nested}

Min(a, b) == IF a <= b THEN a ELSE b

\* Python's l[:n] for n >= 0
Slice(l, n) == SubSeq(l, 1, Min(n, Len(l)))

RECURSIVE truncate_json(_, _)
RECURSIVE truncate_json_NegatedSlice(_, _)

\* (slices with [:-max_elements]: drops the last entries instead of keeping the first)
truncate_json_NegatedSlice(j, n) ==
    IF j.t = "list" THEN [j EXCEPT !.v = SubSeq(j.v, 1, IF n = 0 THEN 0 ELSE Len(j.v) - n)]
    ELSE IF j.t = "dict"
    THEN [j EXCEPT !.v = [i \in 1..Len(j.v) |->
              [j.v[i] EXCEPT !.v = <<truncate_json_NegatedSlice(j.v[i].v[1], n)>>]]]
    ELSE j

truncate_json(j, n) ==
    IF j.t = "list" THEN [j EXCEPT !.v = Slice(j.v, n)]
    ELSE IF j.t = "dict"
    THEN [j EXCEPT !.v = [i \in 1..Len(j.v) |->
              [j.v[i] EXCEPT !.v = <<truncate_json(j.v[i].v[1], n)>>]]]
    ELSE j

NoJson == Scalar("")

TruncParked ==
    /\ json_obj = NoJson /\ max_elements = 0 /\ tj_pc = "parked"
    /\ truncated = NoJson /\ truncated_again = NoJson

TruncInit ==
    /\ json_obj \in JsonValues /\ max_elements \in 0..MaxElements
    /\ tj_pc = "start" /\ truncated = NoJson /\ truncated_again = NoJson

\* truncate_json(json_obj, max_elements)
Truncate ==
    /\ tj_pc = "start"
    /\ truncated' = truncate_json(json_obj, max_elements)
    /\ tj_pc' = "once"
    /\ UNCHANGED <<json_obj, max_elements, truncated_again, convVars, retrVars, synthVars, sendVars, swaggerVars>>

\* truncate_json applied to its own result
TruncateAgain ==
    /\ tj_pc = "once"
    /\ truncated_again' = truncate_json(truncated, max_elements)
    /\ tj_pc' = "twice"
    /\ UNCHANGED <<json_obj, max_elements, truncated, convVars, retrVars, synthVars, sendVars, swaggerVars>>

----------------------------------------------------------------------------
(* The retrieval queries (routes/workflow/utils/api_retrievers.py) *)

Namespaces == {"knowledgebase", "swagger", "apis"}

\* a stored record: its tenant, its similarity to the query text in percent,
\* and its payload (the passage text, or the operation of its metadata)
Record(b, score, payload) == [bot_id |-> b, score |-> score, payload |-> payload]

OwnRecords ==
    { Record("bot1", 60, "bot1/a"), Record("bot1", 70, "bot1/b"),
      Record("bot1", 78, "bot1/c"), Record("bot1", 85, "bot1/d"),
      Record("bot1", 90, "bot1/e"), Record("bot1", 95, "bot1/f"),
      Record("bot1", 97, "bot1/g") }
OtherRecords == { Record("bot2", 88, "bot2/a"), Record("bot2", 99, "bot2/b") }

\* a record whose payload cannot be read (no "operation" in its metadata)
UnreadableRecords == { Record("bot1", 93, None) }

\* what an index may hold
StoreContents ==
    { {}, OtherRecords, OwnRecords \cup OtherRecords,
      {Record("bot1", 85, "bot1/d"), Record("bot2", 88, "bot2/a"), Record("bot2", 85, "bot2/c")},
      {Record("bot1", 85, "bot1/d")} \cup UnreadableRecords }

\* the environment variable SCORE_THRESHOLD_KB: unset, or a percentage
EnvValues == {[set |-> FALSE, value |-> 0], [set |-> TRUE, value |-> 50], [set |-> TRUE, value |-> 92]}

getenv(env, default) == IF env.set THEN env.value ELSE default

NoFilter == None

\* lines 26-32, 54-60, 83-89: the search_kwargs of the three retrievers
kb_search_kwargs(b, env) ==
    [k |-> 3, score_threshold |-> getenv(env, 65), filter |-> b]

flows_search_kwargs_Unfiltered(b, env) ==
    [k |-> 3, score_threshold |-> getenv(env, 80), filter |-> NoFilter]

flows_search_kwargs(b, env) ==
    [k |-> 3, score_threshold |-> getenv(env, 80), filter |-> b]

apis_search_kwargs(b, env) ==
    [k |-> 5, score_threshold |-> getenv(env, 75), filter |-> b]

\* the records a search may consider
Candidates(store, kwargs) ==
    {r \in store : /\ kwargs.filter # NoFilter => r.bot_id = kwargs.filter
                   /\ r.score >= kwargs.score_threshold}

\* get_relevant_documents: the k most similar candidates, most similar first
SearchResults(store, kwargs) ==
    LET cand == Candidates(store, kwargs)
        n == Min(kwargs.k, Cardinality(cand))
    IN  {h \in [1..n -> cand] :
            /\ \A i, j \in 1..n : i < j => h[i] # h[j] /\ h[i].score >= h[j].score
            /\ \A r \in cand : (\A i \in 1..n : h[i] # r) => \A i \in 1..n : h[i].score >= r.score}

RECURSIVE JoinWith(_, _)
JoinWith(sep, l) ==
    IF l = <<>> THEN <<>>
    ELSE IF Len(l) = 1 THEN <<l[1]>>
    ELSE <<l[1], sep>> \o JoinWith(sep, Tail(l))

Payloads(h) == [i \in 1..Len(h) |-> h[i].payload]

\* reading the payload of some hit raises (KeyError, or TypeError in the join)
ReadFails(h) == \E i \in 1..Len(h) : h[i].payload = None

\* a value returned by a retrieval query: absent, a text, or a list
Absent == [absent |-> TRUE, text |-> <<>>, list |-> <<>>]
Text(t) == [absent |-> FALSE, text |-> t, list |-> <<>>]
ListOf(l) == [absent |-> FALSE, text |-> <<>>, list |-> l]

NoKwargs == [k |-> 0, score_threshold |-> 0, filter |-> NoFilter]

docs_value_JoinAlways(result) == Text(JoinWith("\n\n", Payloads(result)))

\* lines 36-38: the passages joined by a blank line, or None without hits
docs_value(result) ==
    IF Len(result) > 0 THEN Text(JoinWith("\n\n", Payloads(result))) ELSE Absent

\* lines 64-67, 93-96: the operation stored with each hit
operations_value(results) == ListOf(Payloads(results))

\* lines 40-47, 69-76, 98-105: what the except clauses return
docs_on_error == Absent
flows_on_error == ListOf(<<>>)
apis_on_error == ListOf(<<>>)

RetrParked ==
    /\ vector_store = [n \in Namespaces |-> {}]
    /\ SCORE_THRESHOLD_KB = [set |-> FALSE, value |-> 0]
    /\ retr_pc = "parked" /\ retr_fn = None /\ retr_bot_id = None
    /\ search_kwargs = NoKwargs /\ search_hits = <<>> /\ retr_result = Absent

RetrInit ==
    /\ vector_store \in [Namespaces -> StoreContents]
    /\ SCORE_THRESHOLD_KB \in EnvValues
    /\ retr_pc = "ready" /\ retr_fn = None /\ retr_bot_id = None
    /\ search_kwargs = NoKwargs /\ search_hits = <<>> /\ retr_result = Absent

\* lines 22-47: the passages of the hits joined by a blank line, absent when
\* there is no hit or when the search or the reading of a hit fails
get_relevant_docs ==
    \E b \in BotIds :
        LET kwargs == kb_search_kwargs(b, SCORE_THRESHOLD_KB)
        IN  /\ retr_pc = "ready"
            /\ retr_fn' = "get_relevant_docs" /\ retr_bot_id' = b
            /\ search_kwargs' = kwargs
            /\ \/ \E result \in SearchResults(vector_store["knowledgebase"], kwargs) :
                     /\ search_hits' = result
                     /\ IF ReadFails(result)
                        THEN retr_result' = docs_on_error /\ retr_pc' = "recovered"
                        ELSE retr_result' = docs_value(result) /\ retr_pc' = "returned"
               \/ /\ search_hits' = <<>>
                  /\ retr_result' = docs_on_error
                  /\ retr_pc' = "recovered"
            /\ UNCHANGED <<vector_store, SCORE_THRESHOLD_KB, convVars, truncVars, synthVars, sendVars, swaggerVars>>

\* lines 50-76: the operation of each hit, the empty list when the search fails
get_relevant_flows ==
    \E b \in BotIds :
        LET kwargs == flows_search_kwargs(b, SCORE_THRESHOLD_KB)
        IN  /\ retr_pc = "ready"
            /\ retr_fn' = "get_relevant_flows" /\ retr_bot_id' = b
            /\ search_kwargs' = kwargs
            /\ \/ \E results \in SearchResults(vector_store["swagger"], kwargs) :
                     /\ search_hits' = results
                     /\ IF ReadFails(results)
                        THEN retr_result' = flows_on_error /\ retr_pc' = "recovered"
                        ELSE retr_result' = operations_value(results) /\ retr_pc' = "returned"
               \/ /\ search_hits' = <<>>
                  /\ retr_result' = flows_on_error
                  /\ retr_pc' = "recovered"
            /\ UNCHANGED <<vector_store, SCORE_THRESHOLD_KB, convVars, truncVars, synthVars, sendVars, swaggerVars>>

\* lines 79-105: the operation of each hit, the empty list when the search fails
get_relevant_apis_summaries ==
    \E b \in BotIds :
        LET kwargs == apis_search_kwargs(b, SCORE_THRESHOLD_KB)
        IN  /\ retr_pc = "ready"
            /\ retr_fn' = "get_relevant_apis_summaries" /\ retr_bot_id' = b
            /\ search_kwargs' = kwargs
            /\ \/ \E results \in SearchResults(vector_store["apis"], kwargs) :
                     /\ search_hits' = results
                     /\ IF ReadFails(results)
                        THEN retr_result' = apis_on_error /\ retr_pc' = "recovered"
                        ELSE retr_result' = operations_value(results) /\ retr_pc' = "returned"
               \/ /\ search_hits' = <<>>
                  /\ retr_result' = apis_on_error
                  /\ retr_pc' = "recovered"
            /\ UNCHANGED <<vector_store, SCORE_THRESHOLD_KB, convVars, truncVars, synthVars, sendVars, swaggerVars>>

----------------------------------------------------------------------------
(* extract_json_payload (routes/workflow/extractors/extract_json.py): the
   first balanced {...} or [...] span of the text, parsed as JSON; absent
   when there is no such span or when it is not valid JSON *)

Opener == {"{", "["}
CloserOf(o) == IF o = "{" THEN "}" ELSE "]"

CountOf(t, tok, i, j) == Cardinality({k \in i..j : t[k] = tok})

\* the positions that close the bracket opened at i
ClosesAt(t, i) ==
    {j \in (i + 1)..Len(t) :
        /\ t[j] = CloserOf(t[i])
        /\ CountOf(t, t[i], i, j) = CountOf(t, CloserOf(t[i]), i, j)}

\* the text is one JSON object or one JSON array
ValidJsonSpan(span) ==
    /\ Len(span) >= 2
    /\ \/ /\ span[1] = "{" /\ span[Len(span)] = "}"
          /\ ParseMembers(SubSeq(span, 2, Len(span) - 1), NoMembers, TRUE).ok
       \/ /\ span[1] = "["
          /\ LET r == ParseItems(Tail(span), <<>>, TRUE) IN r.ok /\ r.rest = <<>>

AbsentJson == [absent |-> TRUE, json |-> <<>>]

extract_json_payload(text) ==
    LET starts == {i \in 1..Len(text) : text[i] \in Opener /\ ClosesAt(text, i) # {}}
    IN  IF starts = {} THEN AbsentJson
        ELSE LET i == CHOOSE i \in starts : \A k \in starts : i <= k
                 j == CHOOSE j \in ClosesAt(text, i) : \A k \in ClosesAt(text, i) : j <= k
                 span == SubSeq(text, i, j)
             IN  IF ValidJsonSpan(span) THEN [absent |-> FALSE, json |-> span]
                 ELSE AbsentJson

----------------------------------------------------------------------------
(* gen_body_from_schema and gen_params_from_schema
   (routes/workflow/extractors/extract_body.py, extract_param.py), started
   together on one event loop for one API call.  Both are coroutines without
   an await: chat(messages) is a plain call that returns when the completion
   has arrived. *)

SynthTasks == {"gen_body_from_schema", "gen_params_from_schema"}

\* the apps with a module integrations.custom_prompts.<app>
PromptModules == {"shop"}
SynthApps == {None, "", "shop", "unknown_app"}

\* the texts the completion model may return to a synthesizer
SynthContents ==
    Contents \cup { <<"[", "\"", "a", "\"", ",", "\"", "b", "\"", "]">>,
                    <<"Use", "[", "\"", "a", "\"", "]", "then", "{", "}">>,
                    <<"{", "\"", "q", "\"", ":", "}">>,
                    <<"]", "[">> }

SynthTask(at, text, got, result, exc) ==
    [pc |-> at, content |-> text, got_content |-> got, result |-> result, raised |-> exc]

Scheduled == SynthTask("scheduled", <<>>, FALSE, AbsentJson, None)

synth_return_StrictLoads(text) ==
    IF ValidJsonSpan(text)
    THEN [raised |-> None, value |-> [absent |-> FALSE, json |-> text]]
    ELSE [raised |-> "JSONDecodeError", value |-> AbsentJson]

\* extract_body.py lines 58-61, extract_param.py lines 40-42: the value returned
synth_return(text) == [raised |-> None, value |-> extract_json_payload(text)]

\* extract_body.py lines 29-32: importing the prompt module of the app
ImportFails(t, a) ==
    t = "gen_body_from_schema" /\ TruthyStr(a) /\ a \notin PromptModules

SynthParked ==
    /\ synth = [t \in SynthTasks |-> SynthTask("parked", <<>>, FALSE, AbsentJson, None)]
    /\ synth_app = None /\ loop_running = None

SynthInit ==
    /\ synth = [t \in SynthTasks |-> Scheduled]
    /\ synth_app \in SynthApps /\ loop_running = None

\* extract_body.py lines 18-54, extract_param.py lines 18-38: the event loop
\* runs the coroutine up to its completion call, which it enters
SynthRun(t) ==
    /\ loop_running = None
    /\ synth[t].pc = "scheduled"
    /\ IF ImportFails(t, synth_app)
       THEN /\ synth' = [synth EXCEPT ![t].pc = "raised", ![t].raised = "ModuleNotFoundError"]
            /\ loop_running' = None
       ELSE /\ synth' = [synth EXCEPT ![t].pc = "in_chat"]
            /\ loop_running' = t
    /\ UNCHANGED <<synth_app, convVars, truncVars, retrVars, sendVars, swaggerVars>>

\* extract_body.py lines 54-61, extract_param.py lines 38-42: the completion
\* arrives, the payload is extracted and the coroutine returns
SynthChatReturns(t) ==
    /\ loop_running = t
    /\ synth[t].pc = "in_chat"
    /\ \E text \in SynthContents :
          LET r == synth_return(text)
          IN  synth' = [synth EXCEPT
                  ![t] = SynthTask(IF r.raised = None THEN "returned" ELSE "raised",
                                   text, TRUE, r.value, r.raised)]
    /\ loop_running' = None
    /\ UNCHANGED <<synth_app, convVars, truncVars, retrVars, sendVars, swaggerVars>>

\* extract_body.py line 54, extract_param.py line 38: the completion call fails
SynthChatRaises(t) ==
    /\ loop_running = t
    /\ synth[t].pc = "in_chat"
    /\ synth' = [synth EXCEPT ![t].pc = "raised", ![t].raised = "CompletionError"]
    /\ loop_running' = None
    /\ UNCHANGED <<synth_app, convVars, truncVars, retrVars, sendVars, swaggerVars>>

----------------------------------------------------------------------------
(* send_chat (routes/chat/chat_controller.py): the POST /send handler.
   Two requests are in progress at a time; each runs the handler from its
   validation to its response, and they interleave at the awaited pipeline
   call and between the handler's calls. *)

Requests == {"req1", "req2"}
ChatSessions == {"sess1", "sess2"}

MaxContentLen == 255

\* the content of a request: its text and its length in characters
ContentLens == {0, 1, MaxContentLen, MaxContentLen + 1}
ChatContents == { [text |-> "hi", len |-> n] : n \in ContentLens }

\* the X-Bot-Token header: missing, empty, of no bot, of bot1
BotTokens == {None, "", "tok_unknown", "tok_bot1"}

\* the chatbots table
Chatbots == { [token |-> "tok_bot1", id |-> "bot1"] }

\* copilot_repo.py lines 163-186: the bot of the token, or ValueError when
\* there is none
find_one_or_fail_by_token(bot_token) ==
    IF \E b \in Chatbots : b.token = bot_token
    THEN [raised |-> None, bot |-> (CHOOSE b \in Chatbots : b.token = bot_token).id]
    ELSE [raised |-> "ValueError", bot |-> None]

\* what root_service.handle_request returns: a response or an error
ResponseDatas ==
    { [response |-> "It is sunny.", error |-> None],
      [response |-> None, error |-> "no operation matched"] }
PipelineErrors == {"KeyError", "Timeout"}
HistoryErrors == {"OperationalError"}

NoResponseData == [response |-> None, error |-> None]
NoResponse == [status |-> 0, shape |-> "none", text |-> <<>>]

content_rejected_EmptyAccepted(message) == message.len > MaxContentLen

\* lines 118-119
content_rejected(message) == message.len = 0 \/ message.len > MaxContentLen

bad_request == [status |-> 400, shape |-> "http_error",
                text |-> <<"Invalid content, the size is larger than 255 char">>]

\* lines 121-122
token_required == [status |-> 500, shape |-> "plain", text |-> <<"bot token is required">>]

\* lines 132-143
bot_not_found ==
    [status |-> 404, shape |-> "json_text",
     text |-> <<"I'm unable to help you at the moment, please try again later. **code: b404**">>]

\* lines 165-167
success_response(response_data) ==
    [status |-> 200, shape |-> "json_text", text |-> <<response_data.response>>]

apology_response_NoDetail(e) ==
    [status |-> 500, shape |-> "json_text",
     text |-> <<"I'm unable to help you at the moment, please try again later. **code: b500**">>]

\* lines 168-180
apology_response(e) ==
    [status |-> 500, shape |-> "json_text",
     text |-> <<"I'm unable to help you at the moment, please try again later. **code: b500**", e>>]

HistoryRecord(req, chatbot_id, session, from_user, message) ==
    [req |-> req, chatbot_id |-> chatbot_id, session_id |-> session,
     from_user |-> from_user, message |-> message]

user_turn_AsBot(req, q) ==
    HistoryRecord(req, q.bot, q.session_id, FALSE, q.message.text)

\* line 157
user_turn(req, q) ==
    HistoryRecord(req, q.bot, q.session_id, TRUE, q.message.text)

\* lines 158-163
bot_turn(req, q) ==
    HistoryRecord(req, q.bot, q.session_id, FALSE,
                  IF q.response_data.response # None THEN q.response_data.response
                  ELSE q.response_data.error)

IdleRequest ==
    [pc |-> "idle", message |-> [text |-> "", len |-> 0], session_id |-> None,
     bot_token |-> None, bot |-> None, lookups |-> 0, pipeline_calls |-> 0,
     response_data |-> NoResponseData, pipeline_exc |-> None, history_exc |-> None,
     response |-> NoResponse, escaped |-> None]

SendParked ==
    /\ chat_reqs = [r \in Requests |-> [IdleRequest EXCEPT !.pc = "parked"]]
    /\ chat_history = <<>>

SendInit ==
    /\ chat_reqs = [r \in Requests |-> IdleRequest]
    /\ chat_history = <<>>

Respond(q, resp) == [q EXCEPT !.pc = "responded", !.response = resp]

\* lines 105-146: the request arrives and the handler runs up to the awaited
\* pipeline call
send_chat(r) ==
    /\ chat_reqs[r].pc = "idle"
    /\ \E message \in ChatContents, session \in ChatSessions, bot_token \in BotTokens :
          LET q == [chat_reqs[r] EXCEPT !.message = message, !.session_id = session,
                                        !.bot_token = bot_token]
              found == find_one_or_fail_by_token(bot_token)
              looked == [q EXCEPT !.lookups = 1, !.bot = found.bot]
          IN  chat_reqs' = [chat_reqs EXCEPT ![r] =
                  IF content_rejected(message) THEN Respond(q, bad_request)
                  ELSE IF ~TruthyStr(bot_token) THEN Respond(q, token_required)
                  ELSE IF found.raised # None
                       THEN [looked EXCEPT !.pc = "escaped", !.escaped = found.raised]
                  ELSE IF found.bot = None
                       THEN [looked EXCEPT !.pc = "escaped", !.escaped = "AttributeError"]
                  ELSE [looked EXCEPT !.pc = "in_pipeline", !.pipeline_calls = 1]]
    /\ UNCHANGED <<chat_history, convVars, truncVars, retrVars, synthVars, swaggerVars>>

\* lines 146-155: the pipeline returns its response data
handle_request_returns(r) ==
    /\ chat_reqs[r].pc = "in_pipeline"
    /\ \E response_data \in ResponseDatas :
          chat_reqs' = [chat_reqs EXCEPT ![r].pc = "write_user",
                                         ![r].response_data = response_data]
    /\ UNCHANGED <<chat_history, convVars, truncVars, retrVars, synthVars, swaggerVars>>

\* lines 146-155 and 168-180: the pipeline raises
handle_request_raises(r) ==
    /\ chat_reqs[r].pc = "in_pipeline"
    /\ \E e \in PipelineErrors :
          chat_reqs' = [chat_reqs EXCEPT ![r] =
              Respond([chat_reqs[r] EXCEPT !.pipeline_exc = e], apology_response(e))]
    /\ UNCHANGED <<chat_history, convVars, truncVars, retrVars, synthVars, swaggerVars>>

\* line 157, and 168-180 when the write fails
create_chat_history_user(r) ==
    /\ chat_reqs[r].pc = "write_user"
    /\ \/ /\ chat_history' = Append(chat_history, user_turn(r, chat_reqs[r]))
          /\ chat_reqs' = [chat_reqs EXCEPT ![r].pc = "write_bot"]
       \/ /\ \E e \in HistoryErrors :
                chat_reqs' = [chat_reqs EXCEPT ![r] =
                    Respond([chat_reqs[r] EXCEPT !.history_exc = e], apology_response(e))]
          /\ UNCHANGED chat_history
    /\ UNCHANGED <<convVars, truncVars, retrVars, synthVars, swaggerVars>>

\* lines 158-167, and 168-180 when the write fails
create_chat_history_bot(r) ==
    /\ chat_reqs[r].pc = "write_bot"
    /\ \/ /\ chat_history' = Append(chat_history, bot_turn(r, chat_reqs[r]))
          /\ chat_reqs' = [chat_reqs EXCEPT ![r] =
                Respond(chat_reqs[r], success_response(chat_reqs[r].response_data))]
       \/ /\ \E e \in HistoryErrors :
                chat_reqs' = [chat_reqs EXCEPT ![r] =
                    Respond([chat_reqs[r] EXCEPT !.history_exc = e], apology_response(e))]
          /\ UNCHANGED chat_history
    /\ UNCHANGED <<convVars, truncVars, retrVars, synthVars, swaggerVars>>

----------------------------------------------------------------------------
(* SwaggerParser (utils/swagger_parser.py) and the validator route
   (routes/copilot/copilot_controller.py): the swagger file of a bot is
   loaded, a parser is constructed from it and its validation report is
   returned. *)

\* an empty dict, which Python counts as false
EmptyDict == "{}"

Falsy(x) == x = None \/ x = "" \/ x = EmptyDict

\* the data of one method of a path; a key that is missing reads as None
MethodData(method, operationId, summary, description, requestBody) ==
    [method |-> method, operationId |-> operationId, summary |-> summary,
     description |-> description, requestBody |-> requestBody]

MethodDatas ==
    { MethodData(m, o, s, d, b) :
        m \in {"get", "post"}, o \in {None, "listPets"}, s \in {None, "List pets"},
        d \in {None, "", "All the pets"}, b \in {None, EmptyDict, "PetSchema"} }

PathItem(path, methods) == [path |-> path, methods |-> methods]

\* the paths of a document: none, one path with one method, one path with a
\* GET and a POST, two paths
PathLists ==
    { <<>> }
    \cup { <<PathItem("/pets", <<m>>)>> : m \in MethodDatas }
    \cup { <<PathItem("/pets", <<MethodData("get", None, "List pets", d, None),
                                 MethodData("post", o, None, "All the pets", b)>>)>> :
             d \in {None, "All the pets"}, o \in {None, "listPets"},
             b \in {None, "PetSchema"} }
    \cup { <<PathItem("/pets", <<MethodData("post", "listPets", s, "", None)>>),
             PathItem("/owners", <<MethodData("post", None, "List pets", None, b)>>)>> :
             s \in {None, "List pets"}, b \in {EmptyDict, "PetSchema"} }

SecurityScheme(name, type) == [name |-> name, type |-> type]

SchemeLists ==
    { <<>>,
      <<SecurityScheme("key", "apiKey")>>,
      <<SecurityScheme("none", "none")>>,
      <<SecurityScheme("oidc", "openIdConnect")>>,
      <<SecurityScheme("untyped", None)>>,
      <<SecurityScheme("oidc", "openIdConnect"), SecurityScheme("basic", "http")>>,
      <<SecurityScheme("oauth", "oauth2"), SecurityScheme("key", "apiKey")>> }

\* what the validator has after reading the file and json.loads: text that is
\* not JSON, the JSON null, or a dict
Document(kind, paths, securitySchemes) ==
    [kind |-> kind, paths |-> paths, securitySchemes |-> securitySchemes]

Unparseable == Document("unparseable", <<>>, <<>>)
NoneDocument == Document("None", <<>>, <<>>)
\* the dict {}
EmptyDocument == Document("dict", <<>>, <<>>)

Documents ==
    {Unparseable, NoneDocument}
    \cup { Document("dict", p, a) : p \in PathLists, a \in SchemeLists }

upper(method) == IF method = "get" THEN "GET" ELSE IF method = "post" THEN "POST" ELSE method

\* lines 4-13 and 73-82
Endpoint(path, method, method_data) ==
    [cls |-> "Endpoint", operation_id |-> method_data.operationId, type |-> upper(method),
     name |-> method_data.summary, description |-> method_data.description,
     request_body |-> method_data.requestBody, request_parameters |-> None,
     response |-> None, path |-> path]

\* lines 15-25
to_dict(e) ==
    [operation_id |-> e.operation_id, type |-> e.type, name |-> e.name,
     description |-> e.description, request_body |-> e.request_body,
     request_parameters |-> e.request_parameters, response |-> e.response,
     path |-> e.path]

to_dicts(es) == [i \in 1..Len(es) |-> to_dict(es[i])]

\* lines 28-29
get_post_endpoints_without_request_body(endpoints) ==
    SelectSeq(endpoints, LAMBDA e : e.type = "POST" /\ Falsy(e.request_body))

\* lines 32-33
get_endpoints_without_name(endpoints) == SelectSeq(endpoints, LAMBDA e : Falsy(e.name))

\* lines 36-37
get_endpoints_without_description(endpoints) ==
    SelectSeq(endpoints, LAMBDA e : Falsy(e.description))

\* lines 40-41
get_endpoints_without_operation_id(endpoints) ==
    SelectSeq(endpoints, LAMBDA e : Falsy(e.operation_id))

\* lines 71-83: the endpoints of the methods of one path, in their order
EndpointsOfPath(item) ==
    [i \in 1..Len(item.methods) |->
        Endpoint(item.path, item.methods[i].method, item.methods[i])]

RECURSIVE EndpointsOfPaths(_)
EndpointsOfPaths(paths) ==
    IF paths = <<>> THEN <<>>
    ELSE EndpointsOfPath(Head(paths)) \o EndpointsOfPaths(Tail(paths))

\* lines 67-85
get_endpoints(swagger_data) == EndpointsOfPaths(swagger_data.paths)

AuthTypes == {"none", "apiKey", "http", "oauth2"}

\* lines 87-93
get_authorization_type(swagger_data) ==
    LET schemes == swagger_data.securitySchemes
        known == {i \in 1..Len(schemes) : schemes[i].type \in AuthTypes}
    IN  IF known = {} THEN None
        ELSE schemes[CHOOSE i \in known : \A k \in known : i <= k].type

\* lines 95-111
get_validations(swagger_data) ==
    LET endpoints == get_endpoints(swagger_data)
    IN  [endpoints_without_operation_id |->
             to_dicts(get_endpoints_without_operation_id(endpoints)),
         endpoints_without_description |->
             to_dicts(get_endpoints_without_description(endpoints)),
         endpoints_without_name |->
             to_dicts(get_endpoints_without_name(endpoints)),
         auth_type |-> get_authorization_type(swagger_data)]

\* lines 50-53: the constructor raises for None only
init_raises(doc) == doc.kind = "None"

NoParser == [made |-> FALSE, swagger_data |-> NoneDocument]
NoValidations ==
    [endpoints_without_operation_id |-> <<>>, endpoints_without_description |-> <<>>,
     endpoints_without_name |-> <<>>, auth_type |-> None]
NoSwaggerResponse == [status |-> 0, error |-> None]

SwaggerParked ==
    /\ swagger_content = NoneDocument /\ parser = NoParser /\ sw_pc = "parked"
    /\ sw_calls = {} /\ sw_endpoints = <<>> /\ sw_validations = NoValidations
    /\ sw_response = NoSwaggerResponse

SwaggerInit ==
    /\ swagger_content \in Documents /\ parser = NoParser /\ sw_pc = "start"
    /\ sw_calls = {} /\ sw_endpoints = <<>> /\ sw_validations = NoValidations
    /\ sw_response = NoSwaggerResponse

\* copilot_controller.py lines 164-186: the file is parsed and the parser
\* constructed; any failure is answered with 400
validator_load ==
    /\ sw_pc = "start"
    /\ IF swagger_content.kind = "unparseable"
       THEN /\ sw_response' = [status |-> 400, error |-> "JSONDecodeError"]
            /\ sw_pc' = "responded" /\ UNCHANGED parser
       ELSE IF init_raises(swagger_content)
       THEN /\ sw_response' = [status |-> 400, error |-> "Failed to parse Swagger file"]
            /\ sw_pc' = "responded" /\ UNCHANGED parser
       ELSE /\ parser' = [made |-> TRUE, swagger_data |-> swagger_content]
            /\ sw_pc' = "constructed" /\ UNCHANGED sw_response
    /\ UNCHANGED <<swagger_content, sw_calls, sw_endpoints, sw_validations,
                   convVars, truncVars, retrVars, synthVars, sendVars>>

\* copilot_controller.py line 188
validator_get_endpoints ==
    /\ sw_pc = "constructed"
    /\ sw_endpoints' = get_endpoints(parser.swagger_data)
    /\ sw_calls' = sw_calls \cup {"get_endpoints"}
    /\ sw_pc' = "listed"
    /\ UNCHANGED <<swagger_content, parser, sw_validations, sw_response,
                   convVars, truncVars, retrVars, synthVars, sendVars>>

\* copilot_controller.py lines 189-196
validator_get_validations ==
    /\ sw_pc = "listed"
    /\ sw_validations' = get_validations(parser.swagger_data)
    /\ sw_calls' = sw_calls \cup {"get_validations"}
    /\ sw_response' = [status |-> 200, error |-> None]
    /\ sw_pc' = "responded"
    /\ UNCHANGED <<swagger_content, parser, sw_endpoints,
                   convVars, truncVars, retrVars, synthVars, sendVars>>

----------------------------------------------------------------------------
(* The specifications *)

Init == ConvInit /\ TruncParked /\ RetrParked /\ SynthParked /\ SendParked /\ SwaggerParked

Next == Call \/ Assemble \/ ChatReturns \/ ChatRaises \/ Parse

Spec == Init /\ [][Next]_vars

TruncateInit == TruncInit /\ ConvParked /\ RetrParked /\ SynthParked /\ SendParked /\ SwaggerParked

TruncateNext == Truncate \/ TruncateAgain

SpecTruncate == TruncateInit /\ [][TruncateNext]_vars

RetrievalInit == RetrInit /\ ConvParked /\ TruncParked /\ SynthParked /\ SendParked /\ SwaggerParked

RetrievalNext == get_relevant_docs \/ get_relevant_flows \/ get_relevant_apis_summaries

SpecRetrieval == RetrievalInit /\ [][RetrievalNext]_vars

SynthesisInit == SynthInit /\ ConvParked /\ TruncParked /\ RetrParked /\ SendParked /\ SwaggerParked

SynthesisNext ==
    \E t \in SynthTasks : SynthRun(t) \/ SynthChatReturns(t) \/ SynthChatRaises(t)

SpecSynthesis == SynthesisInit /\ [][SynthesisNext]_vars

SendChatInit == SendInit /\ ConvParked /\ TruncParked /\ RetrParked /\ SynthParked /\ SwaggerParked

SendChatNext ==
    \E r \in Requests :
        \/ send_chat(r)
        \/ handle_request_returns(r)
        \/ handle_request_raises(r)
        \/ create_chat_history_user(r)
        \/ create_chat_history_bot(r)

SpecSendChat == SendChatInit /\ [][SendChatNext]_vars

ValidatorInit ==
    SwaggerInit /\ ConvParked /\ TruncParked /\ RetrParked /\ SynthParked /\ SendParked

ValidatorNext == validator_load \/ validator_get_endpoints \/ validator_get_validations

SpecValidator == ValidatorInit /\ [][ValidatorNext]_vars


----------------------------------------------------------------------------
(* Properties of process_conversation_step *)

Tokens(m) == {m.content[i] : i \in 1..Len(m.content)}

\* the tokens sub occur in the message, next to each other and in order
HasTokens(m, sub) ==
    \E i \in 1..(Len(m.content) - Len(sub) + 1) :
        SubSeq(m.content, i, i + Len(sub) - 1) = sub

\* what the literal parts of the evidence messages speak about
ContextLiterals == {ContextIntro, ContextOnlyIntro}
SummaryLiterals == {SwaggerIntro, SummariesOnlyIntro}
FlowLiterals == {FlowsIntro, FlowsPrecedence}

PresentsContext(m) == Tokens(m) \cap ContextLiterals # {} /\ HasTokens(m, dumps_str(context))
PresentsSummaries(m) == Tokens(m) \cap SummaryLiterals # {} /\ HasTokens(m, dumps_list(api_summaries))
PresentsFlows(m) == Tokens(m) \cap FlowLiterals # {} /\ HasTokens(m, dumps_list(flows))

SilentOnContext(m) == Tokens(m) \cap ContextLiterals = {} /\ ~HasTokens(m, dumps_str(context))
SilentOnSummaries(m) == Tokens(m) \cap SummaryLiterals = {} /\ ~HasTokens(m, dumps_list(api_summaries))
SilentOnFlows(m) == Tokens(m) \cap FlowLiterals = {} /\ ~HasTokens(m, dumps_list(flows))

\* the messages between the history and the three closing messages
Evidence(msgs) == SubSeq(msgs, 2 + Len(prev_conversations), Len(msgs) - 3)

Assembled == pc \in {"chat", "parse", "returned"} \/ (pc = "raised" /\ raised = "CompletionError")

\* C1: when parsing the model's text fails, the turn still returns, with
\* ids = [] and with the raw model text as bot_message after the parser's
\* OutputParserException, the stringified error after any other failure.
C1_ParseFailureRecovered ==
    parse_outcome.exc \notin {None, NotParsed.exc} =>
        /\ pc = "returned" /\ raised = None
        /\ returned.ids = <<>>
        /\ parse_outcome.exc = "OutputParserException" => returned.bot_message = content
        /\ parse_outcome.exc # "OutputParserException" => returned.bot_message = <<parse_outcome.exc>>

C1_Witness ==
    /\ pc = "returned" /\ parse_outcome.exc = "OutputParserException"
    /\ content = <<"It", "is", "sunny.">> /\ returned.bot_message = content

\* C2: a model text that holds a reply structure {"ids": [...],
\* "bot_message": "..."} and parses is returned as exactly that structure:
\* the same ids in the same order and the same message, whatever the
\* context, summaries, flows and history of the turn.
C2_StructuredReplyRoundTrip ==
    \A s \in ReplyStructs, pre \in Prose, post \in Prose :
        (pc = "returned" /\ content = pre \o JsonText(s) \o post /\ parse_outcome.exc = None)
            => returned = BotMessage(s.ids, <<s.bot_message>>)

C2_Witness ==
    /\ pc = "returned" /\ parse_outcome.exc = None
    /\ content = JsonText([ids |-> <<"flow-42">>, bot_message |-> "Sure, doing that."])
    /\ returned.ids = <<"flow-42">> /\ flows = <<"flow-42">>

\* C3: a turn with an empty or missing session id fails with the domain
\* error before any collaborator is invoked: neither the prompt-override
\* loader nor the completion model is called.
C3_NoSessionFailsFast ==
    (pc # "idle" /\ ~TruthyStr(session_id)) =>
        /\ pc = "raised" /\ raised = "ValueError"
        /\ load_prompts_calls = 0 /\ chat_calls = 0
        /\ messages = <<>> /\ chat_messages = <<>>

C3_Witness == pc = "raised" /\ session_id = "" /\ raised = "ValueError"

\* C4: the evidence message follows the precedence: context, summaries and
\* flows -> one message presenting the three and the precedence of flows;
\* context and summaries without flows -> context and summaries only;
\* context alone -> context only; summaries alone -> summaries only, silent
\* on flows and context; nothing -> no evidence message.  Never more than one.
C4_EvidencePrecedence ==
    Assembled =>
        LET ev == Evidence(messages)
            c == TruthyStr(context)
            s == TruthyList(api_summaries)
            f == TruthyList(flows)
        IN  /\ Len(ev) <= 1
            /\ (c /\ s /\ f) =>
                  /\ Len(ev) = 1
                  /\ PresentsContext(ev[1]) /\ PresentsSummaries(ev[1]) /\ PresentsFlows(ev[1])
                  /\ FlowsPrecedence \in Tokens(ev[1])
            /\ (c /\ s /\ ~f) =>
                  /\ Len(ev) = 1
                  /\ PresentsContext(ev[1]) /\ PresentsSummaries(ev[1]) /\ SilentOnFlows(ev[1])
            /\ (c /\ ~s /\ ~f) =>
                  /\ Len(ev) = 1
                  /\ PresentsContext(ev[1]) /\ SilentOnSummaries(ev[1]) /\ SilentOnFlows(ev[1])
            /\ (~c /\ s /\ ~f) =>
                  /\ Len(ev) = 1
                  /\ PresentsSummaries(ev[1]) /\ SilentOnContext(ev[1]) /\ SilentOnFlows(ev[1])
            /\ (~c /\ ~s /\ ~f) => ev = <<>>

C4_Witness ==
    /\ pc = "chat" /\ context = "kb passage" /\ flows = <<"flow-42">>
    /\ api_summaries = <<"getWeather", "listCities">>
    /\ Len(Evidence(messages)) = 1 /\ FlowsPrecedence \in Tokens(Evidence(messages)[1])

\* C5: the messages sent to the model are, in order: the system
\* instruction, the prior-turn messages verbatim and in their order, the
\* evidence message if any, the JSON-format instruction, the clarifying
\* instruction, and the user text last; 4 + |history| + (0 or 1) messages,
\* and exactly 4 with an empty history and no evidence.
C5_MessageOrder ==
    chat_calls > 0 =>
        LET m == chat_messages
            h == Len(prev_conversations)
            n == Len(m)
        IN  /\ n \in {4 + h, 5 + h}
            /\ m[1].type = "system"
            /\ SubSeq(m, 2, h + 1) = prev_conversations
            /\ n = 5 + h =>
                  /\ m[h + 2].type = "human"
                  /\ Tokens(m[h + 2]) \cap (ContextLiterals \cup SummaryLiterals) # {}
            /\ m[n - 2] = HumanMessage(<<JsonFormatInstruction>>)
            /\ m[n - 1] = HumanMessage(<<ClarifyInstruction>>)
            /\ m[n] = HumanMessage(<<user_requirement>>)
            /\ (h = 0 /\ ~TruthyStr(context) /\ ~TruthyList(api_summaries)) => n = 4

C5_Witness ==
    /\ chat_calls = 1 /\ Len(prev_conversations) = 2
    /\ prev_conversations[1] # prev_conversations[2]
    /\ Len(chat_messages) = 7

\* C6: the system instruction is the custom system prompt whenever one is
\* registered for the bot id, with or without an app identifier, and the
\* generic default otherwise.
C6_CustomPromptWheneverRegistered ==
    Assembled =>
        messages[1] = IF prompts_registry[bot_id] # None
                      THEN SystemMessage(<<prompts_registry[bot_id]>>)
                      ELSE SystemMessage(<<DefaultSystemMessage>>)

\* C7: a turn with a session id invokes the completion model exactly once,
\* with the assembled messages, whether the turn returns a parsed reply,
\* returns after a parse failure, or the completion call fails and the
\* failure reaches the caller; there is no second call.
C7_SingleCompletionCall ==
    /\ chat_calls <= 1
    /\ chat_calls = 1 => chat_messages = messages /\ Len(messages) >= 4
    /\ (pc \in {"parse", "returned"} \/ (pc = "raised" /\ TruthyStr(session_id))) => chat_calls = 1
    /\ (pc = "raised" /\ TruthyStr(session_id)) =>
            raised = "CompletionError" /\ returned = NoBotMessage

C7_Witness ==
    /\ pc = "raised" /\ raised = "CompletionError" /\ chat_calls = 1
    /\ TruthyStr(session_id)

----------------------------------------------------------------------------
(* Properties of truncate_json *)

\* every list of the structure, at every depth, has at most n entries
RECURSIVE AllListsWithin(_, _)
AllListsWithin(j, n) ==
    /\ j.t = "list" => Len(j.v) <= n
    /\ \A i \in 1..Len(j.v) : AllListsWithin(j.v[i], n)

\* the structure with every list, at every depth, cut to its first n entries
RECURSIVE CutEverywhere(_, _)
CutEverywhere(j, n) ==
    IF j.t = "list"
    THEN [j EXCEPT !.v = [i \in 1..Min(n, Len(j.v)) |-> CutEverywhere(j.v[i], n)]]
    ELSE [j EXCEPT !.v = [i \in 1..Len(j.v) |-> CutEverywhere(j.v[i], n)]]

\* C8: in truncate_json(x, n) every list at every depth, lists inside lists
\* and mappings inside lists included, has at most n entries, each list being
\* the first n entries of the original, keys and scalars unchanged.
C8_EveryListCut ==
    tj_pc \in {"once", "twice"} =>
        /\ AllListsWithin(truncated, max_elements)
        /\ truncated = CutEverywhere(json_obj, max_elements)

\* C9: truncate_json is idempotent: applied to its own result with the same n
\* it returns that result.
C9_Idempotent ==
    tj_pc = "twice" => truncated_again = truncated

C9_Witness ==
    /\ tj_pc = "twice" /\ json_obj.t = "dict" /\ max_elements = 1
    /\ truncated # json_obj /\ truncated_again = truncated

----------------------------------------------------------------------------
(* Properties of the retrieval queries *)

Range(f) == {f[i] : i \in DOMAIN f}

\* the payloads a query handed back to its caller
ReturnedPayloads == Range(retr_result.list) \cup (Range(retr_result.text) \ {"\n\n"})

StoreOf(fn) ==
    IF fn = "get_relevant_docs" THEN vector_store["knowledgebase"]
    ELSE IF fn = "get_relevant_flows" THEN vector_store["swagger"]
    ELSE vector_store["apis"]

\* C10: every retrieval query for bot id b issues its search with the filter
\* bot id = b, and no hit and no payload it returns belongs to a record of
\* another bot, whatever other bots have stored in the same index.
C10_TenantIsolation ==
    retr_pc \in {"returned", "recovered"} =>
        /\ search_kwargs.filter = retr_bot_id
        /\ \A i \in 1..Len(search_hits) : search_hits[i].bot_id = retr_bot_id
        /\ \A p \in ReturnedPayloads :
              \A r \in StoreOf(retr_fn) : r.payload = p => r.bot_id = retr_bot_id

C10_Witness ==
    /\ retr_pc = "returned" /\ retr_fn = "get_relevant_flows" /\ retr_bot_id = "bot1"
    /\ Len(search_hits) > 0
    /\ \E r \in vector_store["swagger"] :
          r.bot_id # "bot1" /\ r.score > search_hits[1].score

\* C11: each query applies its own minimum similarity, distinct per index
\* (knowledge base 0.65, flows 0.80, API summaries 0.75 by default) and
\* configurable per index, and returns at most 3, 3 and 5 hits; configuring
\* the threshold of the knowledge base leaves the thresholds of the flows and
\* of the API summaries as they were.
C11_ThresholdPerIndex ==
    retr_pc \in {"returned", "recovered"} =>
        /\ Len(search_hits) <= search_kwargs.k
        /\ retr_fn = "get_relevant_docs" =>
              /\ search_kwargs.k = 3
              /\ search_kwargs.score_threshold =
                    IF SCORE_THRESHOLD_KB.set THEN SCORE_THRESHOLD_KB.value ELSE 65
        /\ retr_fn = "get_relevant_flows" =>
              search_kwargs.k = 3 /\ search_kwargs.score_threshold = 80
        /\ retr_fn = "get_relevant_apis_summaries" =>
              search_kwargs.k = 5 /\ search_kwargs.score_threshold = 75

\* C12: retrieval is best-effort: when the search or the reading of a hit's
\* payload fails, the query returns absent (knowledge base) or the empty list
\* (flows, API summaries); the knowledge-base query returns absent without
\* hits and otherwise the passages of the hits, in rank order, joined by a
\* blank line.
C12_BestEffortRetrieval ==
    retr_pc \in {"returned", "recovered"} =>
        /\ ReadFails(search_hits) => retr_pc = "recovered"
        /\ retr_pc = "recovered" =>
              retr_result = IF retr_fn = "get_relevant_docs" THEN Absent ELSE ListOf(<<>>)
        /\ (retr_pc = "returned" /\ retr_fn = "get_relevant_docs") =>
              /\ search_hits = <<>> => retr_result = Absent
              /\ search_hits # <<>> =>
                    /\ ~retr_result.absent
                    /\ Len(retr_result.text) = 2 * Len(search_hits) - 1
                    /\ \A i \in 1..Len(search_hits) :
                          retr_result.text[2 * i - 1] = search_hits[i].payload
                    /\ \A i \in 1..(Len(search_hits) - 1) :
                          /\ retr_result.text[2 * i] = "\n\n"
                          /\ search_hits[i].score >= search_hits[i + 1].score

C12_Witness ==
    /\ retr_pc = "recovered" /\ retr_fn = "get_relevant_flows"
    /\ ReadFails(search_hits) /\ retr_result = ListOf(<<>>)

----------------------------------------------------------------------------
\* no part of the text is a JSON object or a JSON array
NoValidJson(text) ==
    \A i \in 1..Len(text) : \A j \in i..Len(text) :
        ~ValidJsonSpan(SubSeq(text, i, j))

(* C13: for every completion text that contains no valid JSON object or
   array, gen_body_from_schema and gen_params_from_schema return absent
   (None) and raise nothing. *)
C13_NoJsonIsAbsent ==
    \A t \in SynthTasks :
        (synth[t].got_content /\ NoValidJson(synth[t].content)) =>
            /\ synth[t].pc = "returned"
            /\ synth[t].raised = None
            /\ synth[t].result = AbsentJson

C13_Witness ==
    /\ synth["gen_body_from_schema"].pc = "returned"
    /\ synth["gen_body_from_schema"].content = <<"It", "is", "sunny.">>
    /\ synth["gen_body_from_schema"].result = AbsentJson
    /\ synth["gen_params_from_schema"].pc = "returned"
    /\ synth["gen_params_from_schema"].content = <<"{", "\"", "q", "\"", ":", "}">>
    /\ synth["gen_params_from_schema"].result = AbsentJson

(* C14: the completion call of a synthesizer is a suspension point: while
   one of the two coroutines of an API call waits for its completion, the
   other, not yet started, can be run and issue its own completion call. *)
C14_CompletionCallSuspends ==
    \A t \in SynthTasks : \A u \in SynthTasks \ {t} :
        (synth[t].pc = "in_chat" /\ synth[u].pc = "scheduled") => ENABLED SynthRun(u)

----------------------------------------------------------------------------
\* the handler of the request has ended, with a response or with an exception
Ended(r) == chat_reqs[r].pc \in {"responded", "escaped"}

ValidContent(r) ==
    chat_reqs[r].message.len >= 1 /\ chat_reqs[r].message.len <= 255

Resolves(token) == \E b \in Chatbots : b.token = token

\* the history records of the request, from the user or from the bot
RecordsOf(r, from_user) ==
    {i \in 1..Len(chat_history) :
        chat_history[i].req = r /\ chat_history[i].from_user = from_user}

NoRecordOf(r) == RecordsOf(r, TRUE) = {} /\ RecordsOf(r, FALSE) = {}

IsApology(resp) ==
    /\ resp.status = 500 /\ resp.shape = "json_text" /\ Len(resp.text) >= 1
    /\ resp.text[1] =
         "I'm unable to help you at the moment, please try again later. **code: b500**"

(* C15: a request with valid content whose bot token is absent or resolves
   to no bot ends in a 404 JSON text response, never in an exception leaving
   the handler; the pipeline is not run and no history record is written. *)
C15_UnknownTokenNotFound ==
    \A r \in Requests :
        (Ended(r) /\ ValidContent(r) /\ ~Resolves(chat_reqs[r].bot_token)) =>
            /\ chat_reqs[r].pc = "responded"
            /\ chat_reqs[r].escaped = None
            /\ chat_reqs[r].response.status = 404
            /\ chat_reqs[r].response.shape = "json_text"
            /\ chat_reqs[r].pipeline_calls = 0
            /\ NoRecordOf(r)

(* C16: once the bot is resolved, a failure raised by the pipeline becomes
   the 500 JSON text response with the apology and the error detail, and no
   exception leaves the handler. *)
C16_PipelineFailureIsApology ==
    \A r \in Requests :
        chat_reqs[r].pipeline_exc # None =>
            /\ chat_reqs[r].pc = "responded"
            /\ chat_reqs[r].escaped = None
            /\ IsApology(chat_reqs[r].response)
            /\ chat_reqs[r].response.text =
                 <<chat_reqs[r].response.text[1], chat_reqs[r].pipeline_exc>>

C16_Witness ==
    /\ chat_reqs["req1"].pipeline_exc = "Timeout"
    /\ chat_reqs["req1"].bot = "bot1"
    /\ chat_reqs["req1"].response.status = 500
    /\ chat_reqs["req2"].pc = "in_pipeline"

(* C17: in the history, every bot-reply record of an exchange comes after
   the user-turn record of the same exchange and session, in every
   interleaving of the requests. *)
C17_UserTurnFirst ==
    \A i \in 1..Len(chat_history) :
        ~chat_history[i].from_user =>
            \E j \in 1..(i - 1) :
                /\ chat_history[j].from_user
                /\ chat_history[j].req = chat_history[i].req
                /\ chat_history[j].session_id = chat_history[i].session_id

C17_Witness ==
    /\ Len(chat_history) = 4
    /\ chat_reqs["req1"].session_id = chat_reqs["req2"].session_id
    /\ chat_history[1].req = "req1" /\ chat_history[1].from_user
    /\ chat_history[2].req = "req2" /\ chat_history[2].from_user
    /\ chat_history[3].req = "req2" /\ ~chat_history[3].from_user
    /\ chat_history[4].req = "req1" /\ ~chat_history[4].from_user

(* C18: an accepted message (valid content, resolved bot) has exactly one
   from-user history record and every reply returned has exactly one from-bot
   record, also when the pipeline failed and the reply is the apology;
   records once written are not changed. *)
C18_OneRecordPerTurn ==
    /\ [](\A r \in Requests :
            (chat_reqs[r].pc = "responded" /\ ValidContent(r)
                  /\ Resolves(chat_reqs[r].bot_token)) =>
                /\ Cardinality(RecordsOf(r, TRUE)) = 1
                /\ Cardinality(RecordsOf(r, FALSE)) = 1)
    /\ [][\A i \in 1..Len(chat_history) :
              i <= Len(chat_history') /\ chat_history'[i] = chat_history[i]]_vars

(* C19: when the pipeline has returned and writing a history record then
   fails, the response is still the success body with the computed reply. *)
C19_HistoryFailureKeepsReply ==
    \A r \in Requests :
        (chat_reqs[r].pc = "responded" /\ chat_reqs[r].history_exc # None) =>
            chat_reqs[r].response = success_response(chat_reqs[r].response_data)

(* C20: a message that is empty or longer than 255 characters is answered
   with 400 before any upstream call: no bot lookup, no pipeline call and no
   history record for it. *)
C20_BadContentRejectedFirst ==
    \A r \in Requests :
        (chat_reqs[r].pc \notin {"idle", "parked"} /\ ~ValidContent(r)) =>
            /\ chat_reqs[r].pc = "responded"
            /\ chat_reqs[r].response.status = 400
            /\ chat_reqs[r].lookups = 0
            /\ chat_reqs[r].pipeline_calls = 0
            /\ NoRecordOf(r)

C20_Witness ==
    /\ chat_reqs["req1"].pc = "responded"
    /\ chat_reqs["req1"].message.len = 256
    /\ chat_reqs["req1"].bot_token = "tok_bot1"
    /\ chat_reqs["req1"].response.status = 400
    /\ chat_reqs["req2"].message.len = 0
    /\ chat_reqs["req2"].response.status = 400
    /\ chat_history = <<>>

----------------------------------------------------------------------------
(* C23: flow candidates reach the prompt only together with context and API
   summaries: with flows but without context or without summaries, the
   messages are those of the same call with an empty flow list, and no
   message mentions the flows. *)
C23_FlowsNeedContextAndSummaries ==
    (Assembled /\ TruthyList(flows)
          /\ ~(TruthyStr(context) /\ TruthyList(api_summaries))) =>
        /\ messages = BuildMessages(app, prompt_templates, prev_conversations,
                                    context, api_summaries, <<>>, user_requirement)
        /\ \A i \in 1..Len(Evidence(messages)) : SilentOnFlows(Evidence(messages)[i])
        /\ (~TruthyStr(context) /\ ~TruthyList(api_summaries)) => Evidence(messages) = <<>>
        /\ (~TruthyStr(context) /\ TruthyList(api_summaries)) =>
              /\ Len(Evidence(messages)) = 1
              /\ SummariesOnlyIntro \in Tokens(Evidence(messages)[1])
        /\ (TruthyStr(context) /\ ~TruthyList(api_summaries)) =>
              /\ Len(Evidence(messages)) = 1
              /\ ContextOnlyIntro \in Tokens(Evidence(messages)[1])

C23_Witness ==
    /\ pc = "chat" /\ flows = <<"flow-42">> /\ ~TruthyStr(context)
    /\ api_summaries = <<"getWeather", "listCities">>
    /\ Len(Evidence(messages)) = 1
    /\ SummariesOnlyIntro \in Tokens(Evidence(messages)[1])

----------------------------------------------------------------------------
\* the parsed endpoints with the defect, as the report lists them
Defective(defect(_)) ==
    to_dicts(SelectSeq(get_endpoints(swagger_content), defect))

FindingKeys == DOMAIN sw_validations \ {"auth_type"}

\* the first scheme of the document whose type is a known one, or None
FirstKnownScheme ==
    LET schemes == swagger_content.securitySchemes
    IN  IF \E i \in 1..Len(schemes) : schemes[i].type \in {"none", "apiKey", "http", "oauth2"}
        THEN LET i == CHOOSE i \in 1..Len(schemes) :
                          /\ schemes[i].type \in {"none", "apiKey", "http", "oauth2"}
                          /\ \A k \in 1..(i - 1) :
                                schemes[k].type \notin {"none", "apiKey", "http", "oauth2"}
             IN  schemes[i].type
        ELSE None

(* C21: the validation report has four endpoint findings: the endpoints
   without operation id, without name, without description, and the POST
   endpoints without request body, each listing exactly the parsed endpoints
   with that defect; and the first known authorization scheme, absent when
   there is none. *)
C21_FourFindings ==
    (sw_pc = "responded" /\ sw_response.status = 200) =>
        /\ sw_validations.endpoints_without_operation_id =
              Defective(LAMBDA e : e.operation_id \in {None, ""})
        /\ sw_validations.endpoints_without_name =
              Defective(LAMBDA e : e.name \in {None, ""})
        /\ sw_validations.endpoints_without_description =
              Defective(LAMBDA e : e.description \in {None, ""})
        /\ sw_validations.auth_type = FirstKnownScheme
        /\ Cardinality(FindingKeys) = 4
        /\ \E k \in FindingKeys \ {"endpoints_without_operation_id",
                                   "endpoints_without_name",
                                   "endpoints_without_description"} :
              sw_validations[k] =
                  Defective(LAMBDA e : e.type = "POST" /\ e.request_body \in {None, EmptyDict})

(* C22: a SwaggerParser is never constructed from an absent or an empty
   document: the construction fails, and get_endpoints and get_validations
   do not run on such a document. *)
C22_EmptyDocumentFailsFast ==
    (sw_pc # "start" /\ swagger_content \in {NoneDocument, EmptyDocument}) =>
        /\ ~parser.made
        /\ sw_calls = {}
        /\ sw_pc = "responded" /\ sw_response.status = 400

============================================================================
